---- MODULE Spec2Model ----
(***************************************************************************)
(* A model of the software rasteriser of src/src/raster.rs: the colour     *)
(* blend, the edge function, the barycentric inside test, the texture      *)
(* lookup and the scan loop of rasterise over a 256x256 RGBA8 buffer.      *)
(*                                                                         *)
(* Numbers.  An f32 coordinate is kept in fixed point with one fractional  *)
(* bit: the integer n stands for n/2 (so 255 is 127.5 and 4 is 2.0).  All  *)
(* sums and products of such small values are exact in f32.  The only f32  *)
(* operation that rounds is the division wx / area of test_inside; its     *)
(* result is kept as the exact fraction (numerator wx, denominator area),  *)
(* with denominator 0 standing for the NaN that 0.0 / 0.0 produces, and    *)
(* the casts `as u8`, `as usize` truncate the exact quotient.  The casts  *)
(* saturate, as Rust defines float-to-integer `as` (NaN to 0, below the    *)
(* range to the minimum, above it to the maximum).                         *)
(*                                                                         *)
(* Arrays of three ([Coord; 3], [Colour; 3], [f32; 3]) are functions on    *)
(* 0..2, so that the index arithmetic of the source reads as written.      *)
(* Slices and Vecs that are only iterated or indexed by a computed usize   *)
(* (polygons, Texture.colours) are sequences, element i at position i+1.   *)
(***************************************************************************)
EXTENDS Integers, Sequences, FiniteSets, TLC

VARIABLES
    polygons,        \* rasterise's argument: the polygon slice
    texture,         \* rasterise's argument: the texture
    out,             \* the bytes rasterise has stored so far, by offset;
                     \* every other byte of the buffer holds what the caller passed
    p,               \* number of the polygon being scanned (0: none yet)
    x, y,            \* the loop variables: the candidate pixel handled last
    interp,          \* test_inside's result for that candidate
    blended_colour,  \* the colour computed for it, if any
    idx,             \* the offset computed for it, if any
    status,          \* "running", "returned", or the panic that aborted the call
    call             \* a direct call of test_inside or Colour::blend (else NoCall)

vars == <<polygons, texture, out, p, x, y, interp, blended_colour, idx, status, call>>

rasterVars == <<polygons, texture, out, p, x, y, interp, blended_colour, idx, status>>

\* ---------------------------------------------------------------- bounds

\* Longest polygon list passed to rasterise.
MaxPolys == 2

\* Largest coordinate, in half pixels, of the exhaustively enumerated triangles.
GridMax == 2

\* ------------------------------------------------------------- constants

\* Width (and height) of the target surface.
Width == 256

\* Length of the output buffer in bytes.
BufLen == 262144

\* ------------------------------------------------------------ data types

None == [some |-> FALSE]

Some(v) == [some |-> TRUE, val |-> v]

Arr3(a, b, c) == [i \in 0..2 |-> IF i = 0 THEN a ELSE IF i = 1 THEN b ELSE c]

\* A Coord given in half pixels.
Coord(cx, cy) == [x |-> cx, y |-> cy]

\* A Coord given in whole pixels (`x as f32` for an integer x).
PixelCoord(px, py) == [x |-> 2 * px, y |-> 2 * py]

Colour(cr, cg, cb) == [r |-> cr, g |-> cg, b |-> cb]

black == Colour(0, 0, 0)

Polygon(v, c, t) == [vertices |-> v, colours |-> c, tex_coords |-> t]

\* ------------------------------------------------------- pure operations

\* The channels added in u8, where the sum wraps, and halved.
BlendChannelNarrow(a, b) == ((a + b) % 256) \div 2

\* u8 channels widened to u16, added, halved, narrowed to u8.
BlendChannel(a, b) == (((a + b) % 65536) \div 2) % 256

blend(self, other) ==
    Colour(BlendChannel(self.r, other.r),
           BlendChannel(self.g, other.g),
           BlendChannel(self.b, other.b))

\* The two products added instead of subtracted.
edge_function_sum(a, b, c) ==
    LET ex == (c.x - a.x) * (b.y - a.y)
        ey == (c.y - a.y) * (b.x - a.x)
    IN  ex + ey

\* The cross product of a->b and a->c (the sign convention is the source's).
edge_function(a, b, c) ==
    LET ex == (c.x - a.x) * (b.y - a.y)
        ey == (c.y - a.y) * (b.x - a.x)
    IN  ex - ey

Min(a, b) == IF a < b THEN a ELSE b

Max(a, b) == IF a > b THEN a ELSE b

bounding_box(self) ==
    LET v == self.vertices
    IN  [min |-> Coord(Min(Min(v[0].x, v[1].x), v[2].x), Min(Min(v[0].y, v[1].y), v[2].y)),
         max |-> Coord(Max(Max(v[0].x, v[1].x), v[2].x), Max(Max(v[0].y, v[1].y), v[2].y))]

\* The weight stored at the index of the edge's first vertex.
WeightIndexSame(i) == i

\* The index the weight of edge i -> (i+1)%3 is stored at: the opposite vertex.
WeightIndex(i) == (i + 2) % 3

\* None, or the weights w[k] = num[k] / den.
test_inside(self, coord) ==
    LET v == self.vertices
        area == edge_function(v[0], v[1], v[2])
        wx(i) == edge_function(v[i], v[(i + 1) % 3], coord)
    IN  IF \E i \in 0..2 : wx(i) < 0
        THEN None
        ELSE Some([num |-> [k \in 0..2 |-> wx(CHOOSE i \in 0..2 : WeightIndex(i) = k)],
                   den |-> area])

\* vals[0]*parts[0] + vals[1]*parts[1] + vals[2]*parts[2] as the fraction n / d.
\* With d = 0 every weight is 0/0 (see WeightsFiniteOrNaN), so the sum is NaN.
interpolate(vals, parts) ==
    [n |-> IF parts.den = 0 THEN 0
           ELSE vals[0] * parts.num[0] + vals[1] * parts.num[1] + vals[2] * parts.num[2],
     d |-> parts.den]

\* The quotient n / d rounded toward zero (d # 0).
TruncDiv(n, d) ==
    LET an == IF n < 0 THEN -n ELSE n
        ad == IF d < 0 THEN -d ELSE d
        q == an \div ad
    IN  IF (n < 0) = (d < 0) THEN q ELSE -q

\* `f as u8` of the f32 n / d: NaN gives 0, the rest truncates and saturates.
AsU8(n, d) ==
    IF d = 0 THEN 0
    ELSE LET q == TruncDiv(n, d) IN IF q < 0 THEN 0 ELSE IF q > 255 THEN 255 ELSE q

\* `f as usize` of the f32 n / d: NaN and negatives give 0, the rest truncates.
AsUsize(n, d) ==
    IF d = 0 THEN 0
    ELSE LET q == TruncDiv(n, d) IN IF q < 0 THEN 0 ELSE q

\* `f.floor() as i32` and `f.ceil() as i32` of a coordinate in half pixels.
Floor(c) == c \div 2

Ceil(c) == -((-c) \div 2)

\* ---------------------------------------------------------------- texture

\* The f32 texture coordinate of a pixel, as fractions of half pixels.
TexX(tex_coords, w) == interpolate([k \in 0..2 |-> tex_coords[k].x], w)

TexY(tex_coords, w) == interpolate([k \in 0..2 |-> tex_coords[k].y], w)

\* `(x as usize) % texture.x` (size > 0).
Texel(f, size) == AsUsize(f.n, f.d * 2) % size

\* The index into texture.colours of the closure of tex_colours.
TexIndex(tex_coords, w, tex) ==
    LET tex_x == Texel(TexX(tex_coords, w), tex.x)
        tex_y == Texel(TexY(tex_coords, w), tex.y)
    IN  (tex_y * tex.x) + tex_x

\* How the closure of tex_colours panics, or "none".
TexPanic(tex_coords, w, tex) ==
    IF tex.x = 0 \/ tex.y = 0 THEN "panic_rem_zero"
    ELSE IF TexIndex(tex_coords, w, tex) >= Len(tex.colours) THEN "panic_tex_index"
    ELSE "none"

TexColour(tex_coords, w, tex) == tex.colours[TexIndex(tex_coords, w, tex) + 1]

\* ------------------------------------------------------ the pixel's colour

ShadedColour(colours, w) ==
    LET r == interpolate([k \in 0..2 |-> colours[k].r], w)
        g == interpolate([k \in 0..2 |-> colours[k].g], w)
        b == interpolate([k \in 0..2 |-> colours[k].b], w)
    IN  Colour(AsU8(r.n, r.d), AsU8(g.n, g.d), AsU8(b.n, b.d))

\* The match that forgets the texture when both colours are present.
BlendedColourShadedOnly(shaded_colours, tex_colours) ==
    IF shaded_colours.some THEN shaded_colours.val
    ELSE IF tex_colours.some THEN tex_colours.val
    ELSE black

BlendedColour(shaded_colours, tex_colours) ==
    CASE ~shaded_colours.some /\ ~tex_colours.some -> black
      [] shaded_colours.some /\ ~tex_colours.some -> shaded_colours.val
      [] ~shaded_colours.some /\ tex_colours.some -> tex_colours.val
      [] shaded_colours.some /\ tex_colours.some -> blend(shaded_colours.val, tex_colours.val)

\* The colour rasterise computes for a pixel of `polygon` with weights w
\* (the texture lookup does not panic).
PixelColour(polygon, w, tex) ==
    BlendedColour(
        IF polygon.colours.some THEN Some(ShadedColour(polygon.colours.val, w)) ELSE None,
        IF polygon.tex_coords.some THEN Some(TexColour(polygon.tex_coords.val, w, tex)) ELSE None)

\* `((y * 256 + x) * 4) as usize`.  A negative i32 becomes a usize above 2^63,
\* beyond any buffer; it is kept negative here and is never in bounds.
PixelIndex(px, py) == (py * Width + px) * 4

InBounds(o) == 0 <= o /\ o < BufLen

Store(buf, o, byte) == [q \in DOMAIN buf \cup {o} |-> IF q = o THEN byte ELSE buf[q]]

\* out[idx] = r; out[idx+1] = g; out[idx+2] = b, up to the first index out of bounds.
StoreColour(buf, i, c) ==
    LET b0 == IF InBounds(i) THEN Store(buf, i, c.r) ELSE buf
        b1 == IF InBounds(i) /\ InBounds(i + 1) THEN Store(b0, i + 1, c.g) ELSE b0
        b2 == IF InBounds(i) /\ InBounds(i + 1) /\ InBounds(i + 2)
              THEN Store(b1, i + 2, c.b) ELSE b1
    IN  b2

\* ------------------------------------------------------------ the scan loop

\* The inclusive ranges of the two for loops over a polygon's bounding box.
MinX(polygon) == Floor(bounding_box(polygon).min.x)

MaxX(polygon) == Ceil(bounding_box(polygon).max.x)

MinY(polygon) == Floor(bounding_box(polygon).min.y)

MaxY(polygon) == Ceil(bounding_box(polygon).max.y)

\* The candidate handled last was the last one of its polygon.
Exhausted == p = 0 \/ (x = MaxX(polygons[p]) /\ y = MaxY(polygons[p]))

HasCandidate == status = "running" /\ (~Exhausted \/ p < Len(polygons))

\* The next candidate in loop order: polygons, then rows, then columns.
Candidate ==
    IF Exhausted
    THEN [p |-> p + 1, x |-> MinX(polygons[p + 1]), y |-> MinY(polygons[p + 1])]
    ELSE IF x < MaxX(polygons[p])
    THEN [p |-> p, x |-> x + 1, y |-> y]
    ELSE [p |-> p, x |-> MinX(polygons[p]), y |-> y + 1]

Advance(c) == p' = c.p /\ x' = c.x /\ y' = c.y

\* test_inside returns None: nothing is computed or stored.
SkipPixel ==
    /\ HasCandidate
    /\ LET c == Candidate
           w == test_inside(polygons[c.p], PixelCoord(c.x, c.y))
       IN  /\ ~w.some
           /\ Advance(c)
           /\ interp' = w
    /\ blended_colour' = None
    /\ idx' = None
    /\ UNCHANGED <<polygons, texture, out, status, call>>

\* The pixel is inside and the texture lookup panics.
PanicTexture ==
    /\ HasCandidate
    /\ LET c == Candidate
           polygon == polygons[c.p]
           w == test_inside(polygon, PixelCoord(c.x, c.y))
       IN  /\ w.some
           /\ polygon.tex_coords.some
           /\ TexPanic(polygon.tex_coords.val, w.val, texture) # "none"
           /\ Advance(c)
           /\ interp' = w
           /\ status' = TexPanic(polygon.tex_coords.val, w.val, texture)
    /\ blended_colour' = None
    /\ idx' = None
    /\ UNCHANGED <<polygons, texture, out, call>>

\* The pixel is inside: its colour is computed and stored at idx, idx+1, idx+2.
WritePixel ==
    /\ HasCandidate
    /\ LET c == Candidate
           polygon == polygons[c.p]
           w == test_inside(polygon, PixelCoord(c.x, c.y))
           i == PixelIndex(c.x, c.y)
       IN  /\ w.some
           /\ polygon.tex_coords.some => TexPanic(polygon.tex_coords.val, w.val, texture) = "none"
           /\ InBounds(i) /\ InBounds(i + 1) /\ InBounds(i + 2)
           /\ Advance(c)
           /\ interp' = w
           /\ blended_colour' = Some(PixelColour(polygon, w.val, texture))
           /\ idx' = Some(i)
           /\ out' = StoreColour(out, i, PixelColour(polygon, w.val, texture))
    /\ UNCHANGED <<polygons, texture, status, call>>

\* The pixel is inside and one of the three stores indexes beyond the buffer.
PanicIndex ==
    /\ HasCandidate
    /\ LET c == Candidate
           polygon == polygons[c.p]
           w == test_inside(polygon, PixelCoord(c.x, c.y))
           i == PixelIndex(c.x, c.y)
       IN  /\ w.some
           /\ polygon.tex_coords.some => TexPanic(polygon.tex_coords.val, w.val, texture) = "none"
           /\ ~(InBounds(i) /\ InBounds(i + 1) /\ InBounds(i + 2))
           /\ Advance(c)
           /\ interp' = w
           /\ blended_colour' = Some(PixelColour(polygon, w.val, texture))
           /\ idx' = Some(i)
           /\ out' = StoreColour(out, i, PixelColour(polygon, w.val, texture))
    /\ status' = "panic_out_index"
    /\ UNCHANGED <<polygons, texture, call>>

\* Every polygon has been scanned.
Return ==
    /\ status = "running"
    /\ ~HasCandidate
    /\ status' = "returned"
    /\ UNCHANGED <<polygons, texture, out, p, x, y, interp, blended_colour, idx, call>>

\* ------------------------------------------------------------- the inputs

\* The vertex colours of main.rs: pure red, green and blue.
VertexColours == Arr3(Colour(255, 0, 0), Colour(0, 255, 0), Colour(0, 0, 255))

\* Texture coordinates spanning the texture as in main.rs, for a 2x2 texture.
TexSpan == Arr3(Coord(2, 0), Coord(0, 4), Coord(4, 4))

\* Texture coordinates reaching left of and beyond the texture.
TexOutside == Arr3(Coord(-2, 0), Coord(-1, 3), Coord(6, 2))

\* The triangle of main.rs scaled down: apex up, then bottom left, bottom right.
ShapeSmall == Arr3(Coord(2, 0), Coord(0, 4), Coord(4, 4))

\* The same triangle with the opposite winding.
ShapeReversed == Arr3(Coord(2, 0), Coord(4, 4), Coord(0, 4))

\* A triangle with vertices between pixel centres.
ShapeHalf == Arr3(Coord(1, 0), Coord(0, 3), Coord(3, 3))

\* A triangle whose bounding box reaches column 256.
ShapeRightEdge == Arr3(Coord(510, 0), Coord(508, 2), Coord(512, 2))

\* A triangle whose bounding box reaches column -1.
ShapeLeftEdge == Arr3(Coord(0, 0), Coord(-2, 2), Coord(2, 2))

\* A triangle whose bounding box reaches row -1.
ShapeTopEdge == Arr3(Coord(0, -2), Coord(-2, 0), Coord(2, 0))

\* A triangle whose bounding box reaches row 256.
ShapeBottomEdge == Arr3(Coord(2, 510), Coord(0, 512), Coord(4, 512))

\* Three collinear vertices.
ShapeCollinear == Arr3(Coord(0, 0), Coord(2, 2), Coord(4, 4))

\* Three coincident vertices.
ShapePoint == Arr3(Coord(2, 2), Coord(2, 2), Coord(2, 2))

NamedPolygons ==
    { Polygon(ShapeSmall, None, None),
      Polygon(ShapeSmall, Some(VertexColours), None),
      Polygon(ShapeSmall, None, Some(TexOutside)),
      Polygon(ShapeSmall, Some(VertexColours), Some(TexSpan)),
      Polygon(ShapeReversed, Some(VertexColours), None),
      Polygon(ShapeHalf, Some(VertexColours), Some(TexSpan)),
      Polygon(ShapeRightEdge, None, None),
      Polygon(ShapeRightEdge, Some(VertexColours), None),
      Polygon(ShapeLeftEdge, Some(VertexColours), None),
      Polygon(ShapeTopEdge, None, Some(TexSpan)),
      Polygon(ShapeBottomEdge, None, None),
      Polygon(ShapeCollinear, Some(VertexColours), None),
      Polygon(ShapePoint, None, Some(TexSpan)) }

\* Every triangle with vertices on the half-pixel grid 0..GridMax.
GridCoords == { Coord(cx, cy) : cx \in 0..GridMax, cy \in 0..GridMax }

GridShapes == { Arr3(a, b, c) : a \in GridCoords, b \in GridCoords, c \in GridCoords }

GridPolygons ==
    { Polygon(v, c, t) :
        v \in GridShapes,
        c \in {None, Some(VertexColours)},
        t \in {None, Some(TexOutside)} }

\* A 2x2 texture of four different colours.
Tex2 ==
    [x |-> 2, y |-> 2,
     colours |-> <<Colour(10, 20, 30), Colour(40, 50, 60), Colour(70, 80, 90), Colour(100, 110, 120)>>]

\* Texture's fields are public and nothing validates them: these can be built too.
TexZero == [x |-> 0, y |-> 0, colours |-> <<>>]

TexZeroHeight == [x |-> 1, y |-> 0, colours |-> <<>>]

TexNoColours == [x |-> 1, y |-> 1, colours |-> <<>>]

Textures == {Tex2, TexZero, TexZeroHeight, TexNoColours}

\* The lists of up to MaxPolys named polygons.
NamedLists == UNION { [1..n -> NamedPolygons] : n \in 0..MaxPolys }

\* The lists of one polygon of the grid.
GridLists == { <<polygon>> : polygon \in GridPolygons }

NoCall == [op |-> "none"]

\* --------------------------------------------------- a call of rasterise

Init ==
    /\ \/ polygons \in NamedLists /\ texture \in Textures
       \/ polygons \in GridLists /\ texture = Tex2
    /\ out = <<>>
    /\ p = 0
    /\ x = 0
    /\ y = 0
    /\ interp = None
    /\ blended_colour = None
    /\ idx = None
    /\ status = "running"
    /\ call = NoCall

Next == SkipPixel \/ PanicTexture \/ WritePixel \/ PanicIndex \/ Return

Spec == Init /\ [][Next]_vars

TypeOK ==
    /\ p \in 0..Len(polygons)
    /\ status \in {"running", "returned", "panic_rem_zero", "panic_tex_index", "panic_out_index"}
    /\ \A o \in DOMAIN out : InBounds(o) /\ out[o] \in 0..255
    /\ interp.some \in BOOLEAN
    /\ blended_colour.some => blended_colour.val.r \in 0..255

\* A weight whose denominator is 0 has numerator 0: it is NaN, never infinite.
WeightsFiniteOrNaN ==
    interp.some => (interp.val.den >= 0 /\
                    \A k \in 0..2 : interp.val.num[k] >= 0 /\
                                    (interp.val.den = 0 => interp.val.num[k] = 0))

\* ------------------------------------- direct calls of the pure functions

IdleRaster ==
    /\ polygons = <<>>
    /\ texture = Tex2
    /\ out = <<>>
    /\ p = 0
    /\ x = 0
    /\ y = 0
    /\ interp = None
    /\ blended_colour = None
    /\ idx = None
    /\ status = "idle"

\* test_inside called on any triangle and any point of the half-pixel grid.
InitInside ==
    /\ IdleRaster
    /\ call \in { [op |-> "test_inside", self |-> Polygon(v, None, None), coord |-> c,
                   done |-> FALSE, ret |-> None] :
                  v \in GridShapes, c \in GridCoords }

CallTestInside ==
    /\ call.op = "test_inside"
    /\ ~call.done
    /\ call' = [call EXCEPT !.ret = test_inside(call.self, call.coord), !.done = TRUE]
    /\ UNCHANGED rasterVars

NextInside == CallTestInside

SpecInside == InitInside /\ [][NextInside]_vars

ChannelValues == {0, 1, 127, 128, 255}

Colours == { Colour(cr, cg, cb) : cr \in ChannelValues, cg \in ChannelValues, cb \in ChannelValues }

\* Colour::blend called on any two colours with channels in ChannelValues.
InitBlend ==
    /\ IdleRaster
    /\ call \in { [op |-> "blend", self |-> a, other |-> b, done |-> FALSE, ret |-> black] :
                  a \in Colours, b \in Colours }

CallBlend ==
    /\ call.op = "blend"
    /\ ~call.done
    /\ call' = [call EXCEPT !.ret = blend(call.self, call.other), !.done = TRUE]
    /\ UNCHANGED rasterVars

NextBlend == CallBlend

SpecBlend == InitBlend /\ [][NextBlend]_vars

\* ------------------------------------------------- notions of the claims

\* The pixel (px, py) is a pixel of the 256x256 target.
InTarget(px, py) == px \in 0..(Width - 1) /\ py \in 0..(Width - 1)

\* The pixel whose four bytes hold offset o.
PixelOf(o) == <<(o \div 4) % Width, (o \div 4) \div Width>>

\* The candidates of a polygon, and of the whole list.
ScanPixels(polygon) ==
    { <<px, py>> : px \in MinX(polygon)..MaxX(polygon), py \in MinY(polygon)..MaxY(polygon) }

AllCandidates == UNION { ScanPixels(polygons[i]) : i \in 1..Len(polygons) }

\* The polygons of the list that classify a pixel as inside.
ClassifiedBy(px, py) ==
    { i \in 1..Len(polygons) : test_inside(polygons[i], PixelCoord(px, py)).some }

Last(S) == CHOOSE i \in S : \A j \in S : j <= i

\* The colour polygon i computes for a pixel, if its texture lookup succeeds.
ColourBy(i, px, py) ==
    LET polygon == polygons[i]
        w == test_inside(polygon, PixelCoord(px, py)).val
    IN  IF polygon.tex_coords.some /\ TexPanic(polygon.tex_coords.val, w, texture) # "none"
        THEN None
        ELSE Some(PixelColour(polygon, w, texture))

\* The R, G, B bytes stored for a pixel, if all three were stored.
Stored(px, py) ==
    LET i == (py * Width + px) * 4
    IN  IF {i, i + 1, i + 2} \subseteq DOMAIN out
        THEN Some(Colour(out[i], out[i + 1], out[i + 2]))
        ELSE None

\* The polygon whose candidate was handled last, and its signed double area.
Current == polygons[p]

CurrentArea == edge_function(Current.vertices[0], Current.vertices[1], Current.vertices[2])

\* The candidate handled last lies on vertex k of its polygon.
OnVertex(k) == p >= 1 /\ PixelCoord(x, y) = Current.vertices[k]

\* The weights are 1 at index k and 0 at the other two.
UnitWeights(w, k) ==
    /\ w.some
    /\ w.val.den # 0
    /\ \A j \in 0..2 : w.val.num[j] = IF j = k THEN w.val.den ELSE 0

\* floor of the f32 n / (2 d), d > 0.
FloorOf(f) == f.n \div (f.d * 2)

\* Twice the area of a triangle by the shoelace formula, without sign.
TwiceArea(v) ==
    LET s == v[0].x * (v[1].y - v[2].y) + v[1].x * (v[2].y - v[0].y) + v[2].x * (v[0].y - v[1].y)
    IN  IF s < 0 THEN -s ELSE s

\* c is a convex combination of the three vertices with three positive weights
\* a/D, b/D, (D-a-b)/D: it lies in the interior of the triangle.  (The weights
\* of a grid point have denominator D = TwiceArea.)
StrictlyInside(v, c) ==
    LET D == TwiceArea(v)
    IN  /\ D > 0
        /\ \E a \in 1..(D - 2) : \E b \in 1..(D - 1 - a) :
              /\ D * c.x = a * v[0].x + b * v[1].x + (D - a - b) * v[2].x
              /\ D * c.y = a * v[0].y + b * v[1].y + (D - a - b) * v[2].y

\* test_inside returned weights that are all >= 0 and sum to 1.
WeightsSumToOne(ret) ==
    /\ ret.some
    /\ ret.val.den # 0
    /\ \A k \in 0..2 : ret.val.num[k] * ret.val.den >= 0
    /\ ret.val.num[0] + ret.val.num[1] + ret.val.num[2] = ret.val.den

\* ------------------------------------------------------------ the claims

\* C1: rasterise clips against the 256x256 target before writing: for a
\* candidate pixel with x or y outside 0..255 no offset is computed and
\* nothing is stored, neither beyond the buffer nor at another pixel's offset.
ClipsToTarget ==
    /\ (p >= 1 /\ ~InTarget(x, y)) => ~idx.some
    /\ status # "panic_out_index"

\* C2: last writer wins: after rasterise returns, every in-range pixel that
\* some polygon of the list classifies as inside holds the colour computed
\* for it by the last polygon in list order that classifies it as inside.
LastWriterWins ==
    status = "returned" =>
        \A px \in AllCandidates \cup { PixelOf(o) : o \in DOMAIN out } :
            (InTarget(px[1], px[2]) /\ ClassifiedBy(px[1], px[2]) # {}) =>
                /\ Stored(px[1], px[2]).some
                /\ Stored(px[1], px[2]) = ColourBy(Last(ClassifiedBy(px[1], px[2])), px[1], px[2])

\* C3: rasterise stores no alpha byte and no byte of a pixel that no polygon
\* of the list classifies as inside: only R, G, B bytes of inside pixels can
\* differ from the buffer the caller passed.
OnlyInsidePixelsStored ==
    \A o \in DOMAIN out :
        /\ o % 4 # 3
        /\ ClassifiedBy(PixelOf(o)[1], PixelOf(o)[2]) # {}

\* C4: a degenerate polygon (edge_function(v0, v1, v2) = 0) has every
\* candidate treated as outside: no weights reach the colour computation and
\* no byte is stored for it.
DegenerateSkipped ==
    (p >= 1 /\ CurrentArea = 0) => (~interp.some /\ ~blended_colour.some /\ ~idx.some)

\* C5 as stated: for every non-degenerate triangle and every point strictly
\* inside it, test_inside returns weights that are all >= 0 and sum to 1.
InsideAnyWinding ==
    (call.op = "test_inside" /\ call.done /\ StrictlyInside(call.self.vertices, call.coord))
        => WeightsSumToOne(call.ret)

\* C5 as amended: for every triangle wound so that edge_function(v0, v1, v2) > 0
\* and every point strictly inside it, test_inside returns weights (not none)
\* that are all >= 0 and sum to 1.
InsidePositiveWinding ==
    (/\ call.op = "test_inside" /\ call.done
     /\ edge_function(call.self.vertices[0], call.self.vertices[1], call.self.vertices[2]) > 0
     /\ StrictlyInside(call.self.vertices, call.coord))
        => WeightsSumToOne(call.ret)

InsidePositiveWindingWitness ==
    /\ call.op = "test_inside" /\ call.done
    /\ edge_function(call.self.vertices[0], call.self.vertices[1], call.self.vertices[2]) > 0
    /\ StrictlyInside(call.self.vertices, call.coord)
    /\ call.ret.some
    /\ \A k \in 0..2 : call.ret.val.num[k] > 0

\* C6: the colour of an inside pixel follows the four-way rule: black with
\* neither colours nor tex_coords, the shaded colour with colours only, the
\* sampled colour with tex_coords only, their per-channel average with both;
\* and that colour is what is stored at the pixel's offset.
FourWayRule ==
    blended_colour.some =>
        LET shaded == ShadedColour(Current.colours.val, interp.val)
            sampled == TexColour(Current.tex_coords.val, interp.val, texture)
            c == blended_colour.val
        IN  /\ (~Current.colours.some /\ ~Current.tex_coords.some) => c = Colour(0, 0, 0)
            /\ (Current.colours.some /\ ~Current.tex_coords.some) => c = shaded
            /\ (~Current.colours.some /\ Current.tex_coords.some) => c = sampled
            /\ (Current.colours.some /\ Current.tex_coords.some) =>
                   c = Colour((shaded.r + sampled.r) \div 2,
                              (shaded.g + sampled.g) \div 2,
                              (shaded.b + sampled.b) \div 2)
            /\ status = "running" =>
                   /\ out[idx.val] = c.r
                   /\ out[idx.val + 1] = c.g
                   /\ out[idx.val + 2] = c.b

FourWayRuleWitness ==
    /\ blended_colour.some
    /\ status = "running"
    /\ Current.colours.some /\ Current.tex_coords.some
    /\ ShadedColour(Current.colours.val, interp.val)
         # TexColour(Current.tex_coords.val, interp.val, texture)
    /\ blended_colour.val # ShadedColour(Current.colours.val, interp.val)

\* C7: texture sampling wraps: for a texture of width W > 0 and height H > 0
\* the colour sampled at texture coordinate (tx, ty), negative ones included,
\* is colours[(floor(ty) mod H) * W + (floor(tx) mod W)].
SampleWraps ==
    (/\ blended_colour.some
     /\ ~Current.colours.some /\ Current.tex_coords.some
     /\ interp.val.den > 0)
        => LET tx == FloorOf(TexX(Current.tex_coords.val, interp.val))
               ty == FloorOf(TexY(Current.tex_coords.val, interp.val))
           IN  /\ (ty % texture.y) * texture.x + (tx % texture.x) < Len(texture.colours)
               /\ blended_colour.val =
                     texture.colours[(ty % texture.y) * texture.x + (tx % texture.x) + 1]

\* C8: Colour::blend is symmetric, idempotent on equal inputs, and each
\* channel of its result is (a + b) div 2, within 0..255.
BlendSymmetricIdempotent ==
    (call.op = "blend" /\ call.done) =>
        /\ call.ret = blend(call.other, call.self)
        /\ call.self = call.other => call.ret = call.self
        /\ call.ret = Colour((call.self.r + call.other.r) \div 2,
                             (call.self.g + call.other.g) \div 2,
                             (call.self.b + call.other.b) \div 2)

BlendWitness ==
    /\ call.op = "blend" /\ call.done
    /\ call.self.r + call.other.r > 255
    /\ call.self # call.other
    /\ call.ret.r >= 128

\* C9: no texture of zero width or height reaches rasterise: whenever the
\* texture lookup runs for an inside pixel the width and height are positive,
\* and it never takes a remainder by zero.
LookupNeverDividesByZero ==
    /\ (interp.some /\ Current.tex_coords.some) => (texture.x > 0 /\ texture.y > 0)
    /\ status # "panic_rem_zero"

\* C10 as stated: for a non-degenerate triangle, a candidate on vertex k is
\* inside with weight 1 at index k and 0 at the other two, and with colours
\* only the pixel is given exactly vertex k's colour.
VertexWeightsAnyWinding ==
    \A k \in 0..2 :
        (OnVertex(k) /\ CurrentArea # 0) =>
            /\ UnitWeights(interp, k)
            /\ (Current.colours.some /\ ~Current.tex_coords.some) =>
                   /\ blended_colour = Some(Current.colours.val[k])
                   /\ InTarget(x, y) => Stored(x, y) = Some(Current.colours.val[k])

\* C10 as amended: for a triangle wound so that edge_function(v0, v1, v2) > 0,
\* a candidate on vertex k is inside with weight 1 at index k and 0 at the
\* other two, and with colours only the pixel is given exactly vertex k's
\* colour.
VertexWeights ==
    \A k \in 0..2 :
        (OnVertex(k) /\ CurrentArea > 0) =>
            /\ UnitWeights(interp, k)
            /\ (Current.colours.some /\ ~Current.tex_coords.some) =>
                   /\ blended_colour = Some(Current.colours.val[k])
                   /\ InTarget(x, y) => Stored(x, y) = Some(Current.colours.val[k])

VertexWeightsWitness ==
    /\ OnVertex(2)
    /\ CurrentArea > 0
    /\ Current.colours.some /\ ~Current.tex_coords.some
    /\ InTarget(x, y)
    /\ Stored(x, y) = Some(Colour(0, 0, 255))

====
